---- MODULE Spec2Model ----
(***************************************************************************)
(* Model of src/index.ts (and of the JavaScript variant of the same file,  *)
(* src/unnamed/part_000): the refined type classifier getRealType, the     *)
(* collection queries built on it, and the comparator areEqual used by     *)
(* the test function.                                                      *)
(*                                                                         *)
(* A JavaScript value is a record                                          *)
(*   t     the result of typeof                                            *)
(*   c     what kind of value it is within that typeof tag                 *)
(*   n     the numeric payload (finite numbers), or the identity of a      *)
(*         symbol or function                                              *)
(*   s     the UTF-16 code units of a string                               *)
(*   items the elements of an array                                        *)
(*   props the own enumerable string-keyed properties of an object, in     *)
(*         property order                                                  *)
(***************************************************************************)
EXTENDS Integers, Sequences, FiniteSets, TLC

VARIABLES arr, a, b, op, ret

vars ==
    <<arr, a, b, op, ret>>

(* ------------------------------ bounds --------------------------------- *)

MaxLen ==
    3

MaxArr ==
    3

MaxKeys ==
    2

(* ------------------------------ values --------------------------------- *)

Val(t, c, n, s, items, props) ==
    [t |-> t, c |-> c, n |-> n, s |-> s, items |-> items, props |-> props]

Num(n) ==
    Val("number", "finite", n, <<>>, <<>>, <<>>)

NaN ==
    Val("number", "NaN", 0, <<>>, <<>>, <<>>)

PosInf ==
    Val("number", "+Infinity", 0, <<>>, <<>>, <<>>)

NegInf ==
    Val("number", "-Infinity", 0, <<>>, <<>>, <<>>)

Str(s) ==
    Val("string", "string", 0, s, <<>>, <<>>)

Bool(x) ==
    Val("boolean", IF x THEN "true" ELSE "false", 0, <<>>, <<>>, <<>>)

Undefined ==
    Val("undefined", "undefined", 0, <<>>, <<>>, <<>>)

Null ==
    Val("object", "null", 0, <<>>, <<>>, <<>>)

BigInt(n) ==
    Val("bigint", "bigint", n, <<>>, <<>>, <<>>)

Symbol(id) ==
    Val("symbol", "symbol", id, <<>>, <<>>, <<>>)

Func(id) ==
    Val("function", "function", id, <<>>, <<>>, <<>>)

Arr(items) ==
    Val("object", "Array", 0, <<>>, items, <<>>)

Obj(props) ==
    Val("object", "Object", 0, <<>>, <<>>, props)

Builtin(class) ==
    Val("object", class, 0, <<>>, <<>>, <<>>)

BoxedString(s) ==
    Val("object", "String", 0, s, <<>>, <<>>)

(* The spelling, in UTF-16 code units, of the string literals of the code. *)
Chars ==
    "number" :> <<110, 117, 109, 98, 101, 114>> @@
    "NaN" :> <<78, 97, 78>> @@
    "Infinity" :> <<73, 110, 102, 105, 110, 105, 116, 121>> @@
    "-Infinity" :> <<45, 73, 110, 102, 105, 110, 105, 116, 121>> @@
    "array" :> <<97, 114, 114, 97, 121>> @@
    "null" :> <<110, 117, 108, 108>> @@
    "date" :> <<100, 97, 116, 101>> @@
    "map" :> <<109, 97, 112>> @@
    "set" :> <<115, 101, 116>> @@
    "promise" :> <<112, 114, 111, 109, 105, 115, 101>> @@
    "regexp" :> <<114, 101, 103, 101, 120, 112>> @@
    "object" :> <<111, 98, 106, 101, 99, 116>> @@
    "boolean" :> <<98, 111, 111, 108, 101, 97, 110>> @@
    "string" :> <<115, 116, 114, 105, 110, 103>> @@
    "undefined" :> <<117, 110, 100, 101, 102, 105, 110, 101, 100>> @@
    "symbol" :> <<115, 121, 109, 98, 111, 108>> @@
    "function" :> <<102, 117, 110, 99, 116, 105, 111, 110>> @@
    "bigint" :> <<98, 105, 103, 105, 110, 116>> @@
    "true" :> <<116, 114, 117, 101>> @@
    "false" :> <<102, 97, 108, 115, 101>> @@
    "[object Object]" :> <<91, 111, 98, 106, 101, 99, 116, 32, 79, 98, 106, 101, 99, 116, 93>>

(* ----------------------- the runtime's primitives ---------------------- *)

TypeOf(value) ==
    value.t

NumberIsNaN(value) ==
    value.t = "number" /\ value.c = "NaN"

NumberIsFinite(value) ==
    value.t = "number" /\ value.c = "finite"

ArrayIsArray(value) ==
    value.t = "object" /\ value.c = "Array"

InstanceOf(value, class) ==
    value.t = "object" /\ value.c = class

(* a === b.  Objects, symbols and functions are equal to themselves only;  *)
(* the comparator never applies === to two objects other than null.        *)
StrictEquals(x, y) ==
    /\ x.t = y.t
    /\ CASE x.t = "number" -> x.c = y.c /\ x.c # "NaN" /\ x.n = y.n
         [] x.t = "string" -> x.s = y.s
         [] x.t = "boolean" -> x.c = y.c
         [] x.t = "undefined" -> TRUE
         [] x.t = "object" -> x.c = "null" /\ y.c = "null"
         [] OTHER -> x.n = y.n


(* ------------------- strings, JsToString and Array sort ------------------ *)

RECURSIVE LexLess(_, _)
(* s < t for strings: comparison of the sequences of UTF-16 code units. *)
LexLess(s, t) ==
    IF t = <<>> THEN FALSE
    ELSE IF s = <<>> THEN TRUE
    ELSE IF Head(s) < Head(t) THEN TRUE
    ELSE IF Head(s) > Head(t) THEN FALSE
    ELSE LexLess(Tail(s), Tail(t))

RECURSIVE Digits(_)
(* Number::toString of a non-negative integer: its decimal digits. *)
Digits(n) ==
    IF n < 10 THEN <<48 + n>> ELSE Append(Digits(n \div 10), 48 + (n % 10))

RECURSIVE JsToString(_)
(* ToString(value), for the kinds of value that the inputs put in arrays. *)
JsToString(value) ==
    CASE value.t = "number" /\ value.c = "finite" ->
             IF value.n < 0 THEN <<45>> \o Digits(-value.n) ELSE Digits(value.n)
      [] value.t = "number" /\ value.c = "NaN" -> Chars["NaN"]
      [] value.t = "number" /\ value.c = "+Infinity" -> Chars["Infinity"]
      [] value.t = "number" /\ value.c = "-Infinity" -> Chars["-Infinity"]
      [] value.t = "string" -> value.s
      [] value.t = "boolean" -> Chars[value.c]
      [] value.t = "undefined" -> Chars["undefined"]
      [] value.t = "object" /\ value.c = "null" -> Chars["null"]
      [] value.t = "object" /\ value.c = "Object" -> Chars["[object Object]"]
      [] value.t = "object" /\ value.c = "Array" ->
             LET RECURSIVE join(_)
                 piece(x) ==
                     IF StrictEquals(x, Undefined) \/ StrictEquals(x, Null)
                     THEN <<>> ELSE JsToString(x)
                 join(k) ==
                     IF k = 0 THEN <<>>
                     ELSE IF k = 1 THEN piece(value.items[1])
                     ELSE join(k - 1) \o <<44>> \o piece(value.items[k])
             IN  join(Len(value.items))

(* The default comparison of Array.prototype.sort on two defined values. *)
SortCompareLess(x, y) ==
    LexLess(JsToString(x), JsToString(y))

RECURSIVE InsertSorted(_, _)
(* x goes after every element that does not compare greater than it. *)
InsertSorted(sorted, x) ==
    IF sorted = <<>> THEN <<x>>
    ELSE IF SortCompareLess(x, Head(sorted)) THEN <<x>> \o sorted
    ELSE <<Head(sorted)>> \o InsertSorted(Tail(sorted), x)

RECURSIVE SortDefined(_)
SortDefined(xs) ==
    IF xs = <<>> THEN <<>>
    ELSE InsertSorted(SortDefined(SubSeq(xs, 1, Len(xs) - 1)), xs[Len(xs)])

(* xs.sort() without a comparator: the defined elements in ascending order *)
(* of their ToString, equal ones in their original order, then the         *)
(* undefined elements.                                                     *)
ArraySort(xs) ==
    LET isDefined(x) == ~StrictEquals(x, Undefined)
        isUndefined(x) == StrictEquals(x, Undefined)
    IN  SortDefined(SelectSeq(xs, isDefined)) \o SelectSeq(xs, isUndefined)

(* ------------------------------ objects -------------------------------- *)

IndexKey ==
    <<"0", "1", "2", "3", "4", "5", "6", "7", "8", "9">>

(* { ...value }: the own enumerable properties of an object. *)
Spread(value) ==
    IF value.c = "Array"
    THEN [i \in 1..Len(value.items) |-> [key |-> IndexKey[i], val |-> value.items[i]]]
    ELSE IF value.c = "String"
    THEN [i \in 1..Len(value.s) |-> [key |-> IndexKey[i], val |-> Str(<<value.s[i]>>)]]
    ELSE value.props

(* Object.keys(o), o given by its properties. *)
ObjectKeys(props) ==
    [i \in 1..Len(props) |-> props[i].key]

(* o[key]: undefined when o has no such property. *)
Get(props, key) ==
    IF \E i \in 1..Len(props) : props[i].key = key
    THEN props[CHOOSE i \in 1..Len(props) : props[i].key = key].val
    ELSE Undefined

(* o[key] = val: a new (non-index) key goes last in property order. *)
SetProp(props, key, val) ==
    IF \E i \in 1..Len(props) : props[i].key = key
    THEN [i \in 1..Len(props) |->
             IF props[i].key = key THEN [key |-> key, val |-> val] ELSE props[i]]
    ELSE Append(props, [key |-> key, val |-> val])

(* Object.entries(o) *)
ObjectEntries(props) ==
    [i \in 1..Len(props) |-> Arr(<<Str(Chars[props[i].key]), props[i].val>>)]

(* xs[i] with a zero-based index i: undefined past the end. *)
At(xs, i) ==
    IF i + 1 <= Len(xs) THEN xs[i + 1] ELSE Undefined

(* ------------------------------ test utils ----------------------------- *)

RECURSIVE areEqual_keysOfB(_, _)
(* areEqual walking the keys of b instead of those of a. *)
areEqual_keysOfB(x, y) ==
    IF /\ TypeOf(x) = "object" /\ TypeOf(y) = "object"
       /\ ~StrictEquals(x, Null) /\ ~StrictEquals(y, Null)
    THEN IF ArrayIsArray(x) /\ ArrayIsArray(y)
         THEN LET sortedA == ArraySort(x.items)
                  sortedB == ArraySort(y.items)
              IN  \A index \in 0..(Len(sortedA) - 1) :
                      areEqual_keysOfB(sortedA[index + 1], At(sortedB, index))
         ELSE LET newA == Spread(x)
                  newB == Spread(y)
                  keys == ObjectKeys(newB)
              IN  \A k \in 1..Len(keys) :
                      areEqual_keysOfB(Get(newA, keys[k]), Get(newB, keys[k]))
    ELSE StrictEquals(x, y)

RECURSIVE areEqual(_, _)
areEqual(x, y) ==
    IF /\ TypeOf(x) = "object" /\ TypeOf(y) = "object"
       /\ ~StrictEquals(x, Null) /\ ~StrictEquals(y, Null)
    THEN IF ArrayIsArray(x) /\ ArrayIsArray(y)
         THEN LET sortedA == ArraySort(x.items)
                  sortedB == ArraySort(y.items)
              IN  \A index \in 0..(Len(sortedA) - 1) :
                      areEqual(sortedA[index + 1], At(sortedB, index))
         ELSE LET newA == Spread(x)
                  newB == Spread(y)
                  keys == ObjectKeys(newA)
              IN  \A k \in 1..Len(keys) :
                      areEqual(Get(newA, keys[k]), Get(newB, keys[k]))
    ELSE StrictEquals(x, y)

(* ---------------- test utils of the JavaScript variant ----------------- *)

(* What evaluating an expression that throws a TypeError yields. *)
Thrown ==
    Val("throw", "TypeError", 0, <<>>, <<>>, <<>>)

(* [...value] is defined for arrays and strings among the values modelled. *)
IsIterable(value) ==
    value.c \in {"Array", "String", "string"}

Iterate(value) ==
    IF value.c = "Array" THEN value.items
    ELSE [i \in 1..Len(value.s) |-> Str(<<value.s[i]>>)]

(* value[key] for a value other than null and undefined. *)
GetV(value, key) ==
    IF value.c = "string" THEN Get(Spread(BoxedString(value.s)), key)
    ELSE Get(Spread(value), key)

IsNullish(value) ==
    StrictEquals(value, Null) \/ StrictEquals(value, Undefined)

RECURSIVE areEqual_js(_, _)
(* The result is Bool(TRUE), Bool(FALSE) or Thrown; every() stops at the   *)
(* first element whose callback returns false or throws.                   *)
areEqual_js(x, y) ==
    IF TypeOf(x) = "object"
    THEN IF ArrayIsArray(x)
         THEN IF ~IsIterable(y) THEN Thrown
              ELSE LET sortedA == ArraySort(x.items)
                       sortedB == ArraySort(Iterate(y))
                       RECURSIVE every(_)
                       every(i) ==
                           IF i > Len(sortedA) THEN Bool(TRUE)
                           ELSE LET r == areEqual_js(sortedA[i], At(sortedB, i - 1))
                                IN  IF r = Bool(TRUE) THEN every(i + 1) ELSE r
                   IN  every(1)
         ELSE IF StrictEquals(x, Null) THEN Thrown
         ELSE LET keys == ObjectKeys(Spread(x))
                  RECURSIVE every(_)
                  every(i) ==
                      IF i > Len(keys) THEN Bool(TRUE)
                      ELSE IF IsNullish(y) THEN Thrown
                      ELSE LET r == areEqual_js(GetV(x, keys[i]), GetV(y, keys[i]))
                           IN  IF r = Bool(TRUE) THEN every(i + 1) ELSE r
              IN  every(1)
    ELSE Bool(StrictEquals(x, y))

(* ------------------------------ functions ------------------------------ *)

getType(value) ==
    TypeOf(value)

getTypesOfItems(xs) ==
    [i \in 1..Len(xs) |-> getType(xs[i])]

(* getRealType without the test for null. *)
getRealType_noNull(value) ==
    IF TypeOf(value) = "number"
    THEN IF NumberIsNaN(value) THEN "NaN"
         ELSE IF ~NumberIsFinite(value) THEN "Infinity"
         ELSE "number"
    ELSE IF TypeOf(value) = "object" /\ ArrayIsArray(value) THEN "array"
    ELSE IF TypeOf(value) = "object" /\ InstanceOf(value, "Date") THEN "date"
    ELSE IF TypeOf(value) = "object" /\ InstanceOf(value, "Map") THEN "map"
    ELSE IF TypeOf(value) = "object" /\ InstanceOf(value, "Set") THEN "set"
    ELSE IF TypeOf(value) = "object" /\ InstanceOf(value, "Promise") THEN "promise"
    ELSE IF TypeOf(value) = "object" /\ InstanceOf(value, "RegExp") THEN "regexp"
    ELSE TypeOf(value)

getRealType(value) ==
    IF TypeOf(value) = "number"
    THEN IF NumberIsNaN(value) THEN "NaN"
         ELSE IF ~NumberIsFinite(value) THEN "Infinity"
         ELSE "number"
    ELSE IF TypeOf(value) = "object" /\ ArrayIsArray(value) THEN "array"
    ELSE IF TypeOf(value) = "object" /\ StrictEquals(value, Null) THEN "null"
    ELSE IF TypeOf(value) = "object" /\ InstanceOf(value, "Date") THEN "date"
    ELSE IF TypeOf(value) = "object" /\ InstanceOf(value, "Map") THEN "map"
    ELSE IF TypeOf(value) = "object" /\ InstanceOf(value, "Set") THEN "set"
    ELSE IF TypeOf(value) = "object" /\ InstanceOf(value, "Promise") THEN "promise"
    ELSE IF TypeOf(value) = "object" /\ InstanceOf(value, "RegExp") THEN "regexp"
    ELSE TypeOf(value)

getRealTypesOfItems(xs) ==
    [i \in 1..Len(xs) |-> getRealType(xs[i])]

(* allItemsHaveTheSameType comparing the refined labels. *)
allItemsHaveTheSameType_real(xs) ==
    LET typesArr == getRealTypesOfItems(xs)
        isOther(type) == type # typesArr[1]
    IN  Len(SelectSeq(typesArr, isOther)) = 0

allItemsHaveTheSameType(xs) ==
    LET typesArr == getTypesOfItems(xs)
        isOther(type) == type # typesArr[1]
    IN  Len(SelectSeq(typesArr, isOther)) = 0

(* The size of the array itself, as if no Set had been built. *)
SetSize_length(xs) ==
    Len(xs)

(* new Set(typesArr).size *)
SetSize(xs) ==
    Cardinality({xs[i] : i \in 1..Len(xs)})

(* everyItemHasAUniqueRealType over the native tags. *)
everyItemHasAUniqueRealType_native(xs) ==
    LET typesArr == getTypesOfItems(xs)
    IN  Len(typesArr) = SetSize(typesArr)

everyItemHasAUniqueRealType(xs) ==
    LET typesArr == getRealTypesOfItems(xs)
    IN  Len(typesArr) = SetSize(typesArr)


RECURSIVE CountTypes_from1(_, _)
(* CountTypes with (types[type] ?? 1) + 1. *)
CountTypes_from1(types, typesArr) ==
    IF typesArr = <<>> THEN types
    ELSE LET type == Head(typesArr)
             old == Get(types, type)
             prev == IF StrictEquals(old, Undefined) THEN 1 ELSE old.n
         IN  CountTypes_from1(SetProp(types, type, Num(prev + 1)), Tail(typesArr))

RECURSIVE CountTypes(_, _)
(* typesArr.forEach((type) => { types[type] = (types[type] ?? 0) + 1 }) *)
CountTypes(types, typesArr) ==
    IF typesArr = <<>> THEN types
    ELSE LET type == Head(typesArr)
             old == Get(types, type)
             prev == IF StrictEquals(old, Undefined) THEN 0 ELSE old.n
         IN  CountTypes(SetProp(types, type, Num(prev + 1)), Tail(typesArr))

(* countRealTypes without the early return for the empty array. *)
countRealTypes_noEarlyReturn(xs) ==
    LET typesArr == getRealTypesOfItems(xs)
        types == CountTypes(<<>>, typesArr)
    IN  Arr(ObjectEntries(types))

countRealTypes(xs) ==
    IF Len(xs) = 0 THEN Null
    ELSE LET typesArr == getRealTypesOfItems(xs)
             types == CountTypes(<<>>, typesArr)
         IN  Arr(ObjectEntries(types))

(* The JavaScript variant: 0 for the empty array, and entries.sort(). *)
countRealTypes_js(xs) ==
    IF Len(xs) = 0 THEN Num(0)
    ELSE LET typesArr == getRealTypesOfItems(xs)
             types == CountTypes(<<>>, typesArr)
             entries == ObjectEntries(types)
         IN  Arr(ArraySort(entries))

(* ------------------------------ inputs --------------------------------- *)

RECURSIVE SeqsUpTo(_, _)
SeqsUpTo(S, n) ==
    IF n = 0 THEN {<<>>}
    ELSE LET shorter == SeqsUpTo(S, n - 1)
         IN  shorter \cup {Append(q, x) : q \in {r \in shorter : Len(r) = n - 1}, x \in S}

(* One value of every kind the classifier tells apart (knownTypes of the   *)
(* tests, plus -Infinity, true and a boxed string).                        *)
KnownValues ==
    { Num(42), NaN, PosInf, NegInf, Str(<<97>>), Bool(FALSE), Bool(TRUE),
      BigInt(12), Symbol(1), Undefined, Null, Builtin("RegExp"),
      Obj(<<>>), Arr(<<Num(1)>>), Func(1), Builtin("Date"), Builtin("Map"),
      Builtin("Set"), Builtin("Promise"), BoxedString(<<49, 50>>) }

ItemValues ==
    { Num(42), NaN, PosInf, Str(<<97>>), Bool(FALSE), Bool(TRUE), Undefined,
      Null, Obj(<<>>), Arr(<<>>), Builtin("Date"), BoxedString(<<49, 50>>) }

InputArrays ==
    SeqsUpTo(ItemValues, MaxLen)

(* Inputs of areEqual: primitives, arrays of primitives, records. *)
Prims ==
    { Num(1), Num(2), Num(10), NaN, Str(<<49>>), Str(<<97>>),
      Str(Chars["true"]), Bool(TRUE), Bool(FALSE), Undefined, Null }

ArrElems ==
    { Num(1), Num(2), Str(<<49>>), Undefined }

EqArrays ==
    {Arr(xs) : xs \in SeqsUpTo(ArrElems, MaxArr)}

RecKeys ==
    <<"0", "x", "y">>

RecVals ==
    { Num(1), Undefined, Arr(<<Num(1)>>), Obj(<<>>) }

(* Records with at most MaxKeys of the keys, in property order. *)
EqRecords ==
    LET keySets == {K \in SUBSET (1..Len(RecKeys)) : Cardinality(K) <= MaxKeys}
        RECURSIVE keySeq(_)
        keySeq(K) ==
            IF K = {} THEN <<>>
            ELSE LET m == CHOOSE i \in K : \A j \in K : i <= j
                 IN  <<RecKeys[m]>> \o keySeq(K \ {m})
    IN  UNION { LET ks == keySeq(K)
                IN  {Obj([i \in 1..Len(ks) |-> [key |-> ks[i], val |-> vs[i]]]) :
                        vs \in [1..Len(ks) -> RecVals]}
              : K \in keySets }

EqValues ==
    Prims \cup EqArrays \cup EqRecords

(* ------------------------------ actions -------------------------------- *)

StrArr(labels) ==
    Arr([i \in 1..Len(labels) |-> Str(Chars[labels[i]])])

CallGetRealType ==
    /\ op = "none"
    /\ \E v \in KnownValues :
         /\ a' = v
         /\ ret' = Str(Chars[getRealType(v)])
    /\ op' = "getRealType"
    /\ UNCHANGED <<arr, b>>

CallGetRealTypesOfItems ==
    /\ op = "none"
    /\ ret' = StrArr(getRealTypesOfItems(arr))
    /\ op' = "getRealTypesOfItems"
    /\ UNCHANGED <<arr, a, b>>

CallAllItemsHaveTheSameType ==
    /\ op = "none"
    /\ ret' = Bool(allItemsHaveTheSameType(arr))
    /\ op' = "allItemsHaveTheSameType"
    /\ UNCHANGED <<arr, a, b>>

CallEveryItemHasAUniqueRealType ==
    /\ op = "none"
    /\ ret' = Bool(everyItemHasAUniqueRealType(arr))
    /\ op' = "everyItemHasAUniqueRealType"
    /\ UNCHANGED <<arr, a, b>>

CallCountRealTypes ==
    /\ op = "none"
    /\ ret' = countRealTypes(arr)
    /\ op' = "countRealTypes"
    /\ UNCHANGED <<arr, a, b>>

CallCountRealTypes_js ==
    /\ op = "none"
    /\ ret' = countRealTypes_js(arr)
    /\ op' = "countRealTypes_js"
    /\ UNCHANGED <<arr, a, b>>

CallAreEqual ==
    /\ op = "none"
    /\ \E y \in EqValues :
         /\ b' = y
         /\ ret' = Bool(areEqual(a, y))
    /\ op' = "areEqual"
    /\ UNCHANGED <<arr, a>>

CallAreEqual_js ==
    /\ op = "none"
    /\ \E y \in EqValues :
         /\ b' = y
         /\ ret' = areEqual_js(a, y)
    /\ op' = "areEqual_js"
    /\ UNCHANGED <<arr, a>>

Init ==
    /\ arr \in InputArrays
    /\ a = Undefined
    /\ b = Undefined
    /\ op = "none"
    /\ ret = Undefined

Next ==
    \/ CallGetRealType
    \/ CallGetRealTypesOfItems
    \/ CallAllItemsHaveTheSameType
    \/ CallEveryItemHasAUniqueRealType
    \/ CallCountRealTypes
    \/ CallCountRealTypes_js

Spec ==
    Init /\ [][Next]_vars

InitEq ==
    /\ arr = <<>>
    /\ a \in EqValues
    /\ b = Undefined
    /\ op = "none"
    /\ ret = Undefined

NextEq ==
    \/ CallAreEqual
    \/ CallAreEqual_js

SpecEq ==
    InitEq /\ [][NextEq]_vars

(* ------------------------------ properties ----------------------------- *)

(* The labels and counts of the rows of a table. *)
RowLabel(table, i) ==
    table.items[i].items[1].s

RowCount(table, i) ==
    table.items[i].items[2].n

IsTable(value) ==
    ArrayIsArray(value)

(* The number of elements of xs with the refined label spelled l. *)
Occurrences(xs, l) ==
    Cardinality({i \in 1..Len(xs) : Chars[getRealType(xs[i])] = l})

RECURSIVE SumCounts(_, _)
SumCounts(table, k) ==
    IF k = 0 THEN 0 ELSE SumCounts(table, k - 1) + RowCount(table, k)

(* C1: for a non-empty input the rows returned by countRealTypes are in    *)
(* ascending lexicographic order of their labels.                          *)
C1_RowsSortedByLabel ==
    (op = "countRealTypes" /\ Len(arr) > 0) =>
        /\ IsTable(ret)
        /\ \A i, j \in 1..Len(ret.items) :
               i < j => LexLess(RowLabel(ret, i), RowLabel(ret, j))

(* The same order, for the JavaScript variant, which sorts the entries.    *)
RowsSortedByLabel_js ==
    (op = "countRealTypes_js" /\ Len(arr) > 0) =>
        /\ IsTable(ret)
        /\ \A i, j \in 1..Len(ret.items) :
               i < j => LexLess(RowLabel(ret, i), RowLabel(ret, j))

(* C2: countRealTypes returns null for the empty array, and a table with   *)
(* at least one row for every other array.                                 *)
C2_NullIffEmpty ==
    op = "countRealTypes" =>
        /\ Len(arr) = 0 => StrictEquals(ret, Null)
        /\ Len(arr) > 0 =>
               ~StrictEquals(ret, Null) /\ IsTable(ret) /\ Len(ret.items) >= 1

C2_Witness ==
    op = "countRealTypes" /\ Len(arr) = 0 /\ StrictEquals(ret, Null)

(* C3: for a non-empty input the table has pairwise distinct labels, a row *)
(* for exactly the labels that getRealType gives on some element, in each  *)
(* row the number of elements with that label (at least 1), and counts     *)
(* that add up to the length of the input.                                 *)
C3_TableCountsLabels ==
    (op = "countRealTypes" /\ Len(arr) > 0) =>
        /\ IsTable(ret)
        /\ \A i, j \in 1..Len(ret.items) :
               i # j => RowLabel(ret, i) # RowLabel(ret, j)
        /\ {RowLabel(ret, i) : i \in 1..Len(ret.items)}
               = {Chars[getRealType(arr[k])] : k \in 1..Len(arr)}
        /\ \A i \in 1..Len(ret.items) :
               /\ RowCount(ret, i) = Occurrences(arr, RowLabel(ret, i))
               /\ RowCount(ret, i) >= 1
        /\ SumCounts(ret, Len(ret.items)) = Len(arr)

C3_Witness ==
    /\ op = "countRealTypes"
    /\ Len(arr) = 3
    /\ Len(ret.items) = 2
    /\ \E i \in 1..2 : RowCount(ret, i) = 2

(* C4: getRealType gives exactly one label, by first match: for a number   *)
(* 'NaN' iff it is NaN, 'Infinity' iff it is an infinity, else 'number';   *)
(* for an object-tagged value 'array', 'null', 'date', 'map', 'set',       *)
(* 'promise', 'regexp' for those kinds and 'object' only for the others;   *)
(* for every other value its typeof tag.                                   *)
C4_Labels ==
    op = "getRealType" =>
        LET l == ret.s
            is(name) == l = Chars[name]
        IN  /\ ret.t = "string"
            /\ a.t = "number" =>
                   /\ is("NaN") <=> a.c = "NaN"
                   /\ is("Infinity") <=> a.c \in {"+Infinity", "-Infinity"}
                   /\ is("number") <=> a.c = "finite"
                   /\ is("NaN") \/ is("Infinity") \/ is("number")
            /\ a.t = "object" =>
                   /\ is("array") <=> a.c = "Array"
                   /\ is("null") <=> a.c = "null"
                   /\ is("date") <=> a.c = "Date"
                   /\ is("map") <=> a.c = "Map"
                   /\ is("set") <=> a.c = "Set"
                   /\ is("promise") <=> a.c = "Promise"
                   /\ is("regexp") <=> a.c = "RegExp"
                   /\ is("object") <=>
                          a.c \notin {"Array", "null", "Date", "Map", "Set",
                                      "Promise", "RegExp"}
                   /\ \E name \in {"array", "null", "date", "map", "set",
                                   "promise", "regexp", "object"} : is(name)
            /\ a.t \notin {"number", "object"} => is(a.t)

C4_Witness ==
    op = "getRealType" /\ StrictEquals(a, Null) /\ ret = Str(Chars["null"])

(* C5: allItemsHaveTheSameType is true iff every element has the typeof    *)
(* tag of the first one (so true for the empty array); 123, NaN, Infinity  *)
(* are of the same type, a boxed string and a string are not.              *)
C5_SameNativeType ==
    op = "allItemsHaveTheSameType" =>
        /\ ret = Bool(\A i \in 1..Len(arr) : TypeOf(arr[i]) = TypeOf(arr[1]))
        /\ Len(arr) = 0 => ret = Bool(TRUE)
        /\ arr = <<Num(42), NaN, PosInf>> => ret = Bool(TRUE)
        /\ arr = <<Str(<<97>>), BoxedString(<<49, 50>>), Str(<<97>>)>>
               => ret = Bool(FALSE)

C5_Witness ==
    /\ op = "allItemsHaveTheSameType"
    /\ arr = <<Num(42), NaN, PosInf>>
    /\ ret = Bool(TRUE)

(* C6: everyItemHasAUniqueRealType is true iff no two elements at          *)
(* different positions have the same getRealType label (so true for the   *)
(* empty array).                                                           *)
C6_UniqueRealTypes ==
    op = "everyItemHasAUniqueRealType" =>
        /\ ret = Bool(\A i, j \in 1..Len(arr) :
                          i # j => getRealType(arr[i]) # getRealType(arr[j]))
        /\ Len(arr) = 0 => ret = Bool(TRUE)

C6_Witness ==
    /\ op = "everyItemHasAUniqueRealType"
    /\ arr = <<Num(42), NaN, PosInf>>
    /\ ret = Bool(TRUE)

(* C7: areEqual is false for two arrays of different lengths, whichever is *)
(* the longer one.                                                         *)
C7_DifferentLengthsDiffer ==
    (/\ op = "areEqual" /\ ArrayIsArray(a) /\ ArrayIsArray(b)
     /\ Len(a.items) # Len(b.items)) => ret = Bool(FALSE)

IsPrimitiveOfClaim(value) ==
    TypeOf(value) \in {"number", "string", "boolean"}

IsPermutation(xs, ys) ==
    /\ Len(xs) = Len(ys)
    /\ \A x \in {xs[i] : i \in 1..Len(xs)} \cup {ys[i] : i \in 1..Len(ys)} :
           Cardinality({i \in 1..Len(xs) : xs[i] = x})
               = Cardinality({i \in 1..Len(ys) : ys[i] = x})

(* C8: areEqual is true for an array of numbers, strings and booleans and  *)
(* any permutation of it.                                                  *)
C8_OrderInsensitive ==
    (/\ op = "areEqual" /\ ArrayIsArray(a) /\ ArrayIsArray(b)
     /\ \A i \in 1..Len(a.items) : IsPrimitiveOfClaim(a.items[i])
     /\ IsPermutation(a.items, b.items)) => ret = Bool(TRUE)

(* C9: for a non-empty array, everyItemHasAUniqueRealType is true iff      *)
(* every row of the table of countRealTypes has count 1.                   *)
C9_UniqueIffAllCountsOne ==
    (op = "countRealTypes" /\ Len(arr) > 0) =>
        (everyItemHasAUniqueRealType(arr)
            <=> \A i \in 1..Len(ret.items) : RowCount(ret, i) = 1)

C9_Witness ==
    /\ op = "countRealTypes"
    /\ Len(arr) = 3
    /\ ~everyItemHasAUniqueRealType(arr)
    /\ \E i \in 1..Len(ret.items) : RowCount(ret, i) = 3

IsPlainRecord(value) ==
    TypeOf(value) = "object" /\ value.c = "Object"

IsObject(value) ==
    TypeOf(value) = "object" /\ ~StrictEquals(value, Null)

(* b[key] for any b: undefined where b has no such property (null and      *)
(* undefined have none).                                                   *)
Lookup(value, key) ==
    IF IsNullish(value) THEN Undefined ELSE GetV(value, key)

(* C10, as stated: for a plain record a and any b, areEqual is true iff    *)
(* every own key of a maps in b to a value that areEqual judges equal; a   *)
(* record without keys is equal to whatever b.                             *)
C10_DirectionalAnyB ==
    (op = "areEqual" /\ IsPlainRecord(a)) =>
        /\ ret = Bool(\A k \in 1..Len(a.props) :
                          areEqual(a.props[k].val, Lookup(b, a.props[k].key)))
        /\ a.props = <<>> => ret = Bool(TRUE)

(* C10, amended: the same for a plain record a and any b that is itself an *)
(* object other than null (a record or an array).                          *)
C10_DirectionalObjectB ==
    (op = "areEqual" /\ IsPlainRecord(a) /\ IsObject(b)) =>
        /\ ret = Bool(\A k \in 1..Len(a.props) :
                          areEqual(a.props[k].val, Lookup(b, a.props[k].key)))
        /\ a.props = <<>> => ret = Bool(TRUE)

(* The JavaScript variant agrees wherever it does not throw a TypeError. *)
DirectionalObjectB_js ==
    (op = "areEqual_js" /\ IsPlainRecord(a) /\ IsObject(b) /\ ret # Thrown) =>
        /\ ret = Bool(\A k \in 1..Len(a.props) :
                          areEqual_js(a.props[k].val, Lookup(b, a.props[k].key))
                              = Bool(TRUE))
        /\ a.props = <<>> => ret = Bool(TRUE)

C10_Witness ==
    /\ op = "areEqual"
    /\ a = Obj(<<[key |-> "x", val |-> Num(1)]>>)
    /\ b = Obj(<<[key |-> "x", val |-> Num(1)], [key |-> "y", val |-> Undefined]>>)
    /\ ret = Bool(TRUE)

====
